---- MODULE Spec2Model ----
(***************************************************************************)
(* Model of the mood tracker (src/app.py): the mood scorer                 *)
(* calculate_average_mood, the pattern analyzer analyze_mood_patterns, the *)
(* message builder get_contextual_notification, and the session handlers   *)
(* of main (login, save, delete, logout).                                  *)
(*                                                                         *)
(* Conventions.                                                            *)
(*  - A mood is named by its label; the source keys MOOD_OPTIONS by the    *)
(*    emoji of the same label.  None is the string "None".                 *)
(*  - A dictionary key that is missing is the value Absent (slots), 0      *)
(*    (stress, sleep) or the empty text (activity), and every read goes    *)
(*    through the operator that models the .get default of the source.     *)
(*  - sleep is counted in half hours (the number_input step is 0.5), so    *)
(*    8.5 hours is 17.                                                     *)
(*  - A text (activity, username) is a sequence of one-character strings.  *)
(*  - A Python float quotient sum/len is compared by cross-multiplying:    *)
(*    the operands are small integers, and every threshold is a multiple   *)
(*    of 0.5, so IEEE division never moves a quotient across a threshold.  *)
(*  - A date is the day number of the ISO string the source compares;      *)
(*    strings of the form YYYY-MM-DD order like their dates.               *)
(***************************************************************************)
EXTENDS Integers, Sequences, FiniteSets, TLC

\* ------------------------------------------------------------------------
\* Constants of the program
\* ------------------------------------------------------------------------
None == "None"
Absent == "<absent>"

MOOD_OPTIONS ==
  [Sad     |-> [label |-> "Sad",     value |-> 1],
   Neutral |-> [label |-> "Neutral", value |-> 2],
   Good    |-> [label |-> "Good",    value |-> 3],
   Great   |-> [label |-> "Great",   value |-> 4]]

MoodKeys == DOMAIN MOOD_OPTIONS

TIME_SLOTS ==
  <<"mood_6_9", "mood_9_12", "mood_12_3", "mood_3_6", "mood_6_9pm", "mood_9_12am">>

SlotKeys == {TIME_SLOTS[i] : i \in DOMAIN TIME_SLOTS}

\* MOOD_OPTIONS.get(m, {}).get('value', 0)
MoodValue(m) == IF m \in MoodKeys THEN MOOD_OPTIONS[m].value ELSE 0

\* ------------------------------------------------------------------------
\* Helpers on sequences
\* ------------------------------------------------------------------------
RECURSIVE SumSeq(_)
SumSeq(s) == IF s = <<>> THEN 0 ELSE Head(s) + SumSeq(Tail(s))

Range(s) == {s[i] : i \in DOMAIN s}

\* s[-k:] of Python
LastK(s, k) == IF Len(s) <= k THEN s ELSE SubSeq(s, Len(s) - k + 1, Len(s))

\* s[:k] of Python
FirstK(s, k) == IF Len(s) <= k THEN s ELSE SubSeq(s, 1, k)

\* ------------------------------------------------------------------------
\* calculate_average_mood
\* ------------------------------------------------------------------------
\* the loop of calculate_average_mood: the values of the filled slots, in
\* TIME_SLOTS order.  A slot counts when its key is in the entry and its value
\* is truthy (not the empty string).
RECURSIVE mood_values(_, _)
mood_values(entry, i) ==
  IF i > Len(TIME_SLOTS) THEN <<>>
  ELSE LET v == entry[TIME_SLOTS[i]]
       IN  IF v # Absent /\ v # ""
           THEN <<MOOD_OPTIONS[v].value>> \o mood_values(entry, i + 1)
           ELSE mood_values(entry, i + 1)

\* mutant: the buckets are open above
bucket_mutant_strict(total, count) ==
  IF 2 * total < 3 * count THEN "Sad"
  ELSE IF 2 * total < 5 * count THEN "Neutral"
  ELSE IF 2 * total < 7 * count THEN "Good"
  ELSE "Great"

\* the bucketing of avg_value = total / count
bucket(total, count) ==
  IF 2 * total <= 3 * count THEN "Sad"
  ELSE IF 2 * total <= 5 * count THEN "Neutral"
  ELSE IF 2 * total <= 7 * count THEN "Good"
  ELSE "Great"

calculate_average_mood(entry) ==
  LET vals == mood_values(entry, 1)
  IN  IF vals = <<>> THEN None
      ELSE bucket(SumSeq(vals), Len(vals))

\* ------------------------------------------------------------------------
\* Entries
\* ------------------------------------------------------------------------
\* e.get('stress', 3); stress = 0 models an entry without the key
Stress(e) == IF e.stress = 0 THEN 3 ELSE e.stress

\* sorted(entries, key=lambda x: x['date']): a stable sort
RECURSIVE InsertByDate(_, _)
InsertByDate(e, s) ==
  IF s = <<>> THEN <<e>>
  ELSE IF Head(s).date <= e.date THEN <<Head(s)>> \o InsertByDate(e, Tail(s))
  ELSE <<e>> \o s

RECURSIVE SortFrom(_, _)
SortFrom(s, acc) ==
  IF s = <<>> THEN acc ELSE SortFrom(Tail(s), InsertByDate(Head(s), acc))

SortByDate(s) == SortFrom(s, <<>>)

RECURSIVE Reverse(_)
Reverse(s) == IF s = <<>> THEN <<>> ELSE Reverse(Tail(s)) \o <<Head(s)>>

\* ------------------------------------------------------------------------
\* analyze_mood_patterns
\* ------------------------------------------------------------------------
\* A Python dict is a record with a field keys (the keys present) next to the
\* values; the value of a key that is not present is a filler.
Avg(total, count) == [num |-> total, den |-> count]
NoAvg == Avg(0, 1)

EmptyStreakInfo == [keys |-> {}, good_mood_streak |-> 0, total_recent_entries |-> 0]
EmptyTrendInfo ==
  [keys |-> {}, mood_trend |-> "", stress_trend |-> "",
   avg_recent_mood |-> NoAvg, avg_recent_stress |-> NoAvg]
EmptyComparison ==
  [keys |-> {}, last_week_avg |-> NoAvg, this_week_avg |-> NoAvg, improvement |-> FALSE]

\* the {} returned for a history of fewer than 2 entries
EmptyAnalysis ==
  [keys |-> {}, streak_info |-> EmptyStreakInfo, trend_info |-> EmptyTrendInfo,
   improvement_areas |-> <<>>, strengths |-> <<>>, comparison |-> EmptyComparison]

AnalysisKeys == {"streak_info", "trend_info", "improvement_areas", "strengths", "comparison"}

\* the loop over reversed(recent_entries); rev is the reversed window
RECURSIVE streak_loop(_)
streak_loop(rev) ==
  IF rev = <<>> THEN 0
  ELSE IF MoodValue(Head(rev).average_mood) >= 3 THEN 1 + streak_loop(Tail(rev))
  ELSE 0

\* mutant: counts the Good/Great days of the window instead of stopping
RECURSIVE streak_mutant_nobreak(_)
streak_mutant_nobreak(recent_entries) ==
  IF recent_entries = <<>> THEN 0
  ELSE (IF MoodValue(Head(recent_entries).average_mood) >= 3 THEN 1 ELSE 0)
       + streak_mutant_nobreak(Tail(recent_entries))

\* mutant: a newest day that is not good is skipped, the streak is that of
\* the days before it
streak_mutant_before_today(recent_entries) ==
  LET rev == Reverse(recent_entries)
  IN  IF rev # <<>> /\ MoodValue(Head(rev).average_mood) < 3
      THEN streak_loop(Tail(rev))
      ELSE streak_loop(rev)

good_mood_streak(recent_entries) == streak_loop(Reverse(recent_entries))

streak_info(recent_entries) ==
  [keys |-> {"good_mood_streak", "total_recent_entries"},
   good_mood_streak |-> good_mood_streak(recent_entries),
   total_recent_entries |-> Len(recent_entries)]

\* mutant: compares the newest entry with the second newest
trend_mutant_adjacent(recent_entries) ==
  IF Len(recent_entries) >= 3
  THEN LET last3 == LastK(recent_entries, 3)
           recent_moods == [i \in 1..3 |-> MoodValue(last3[i].average_mood)]
           recent_stress == [i \in 1..3 |-> Stress(last3[i])]
       IN  [keys |-> {"mood_trend", "stress_trend", "avg_recent_mood", "avg_recent_stress"},
            mood_trend |-> IF recent_moods[3] > recent_moods[2] THEN "improving"
                           ELSE IF recent_moods[3] < recent_moods[2] THEN "declining"
                           ELSE "stable",
            stress_trend |-> IF recent_stress[3] > recent_stress[2] THEN "increasing"
                             ELSE IF recent_stress[3] < recent_stress[2] THEN "decreasing"
                             ELSE "stable",
            avg_recent_mood |-> Avg(SumSeq(recent_moods), 3),
            avg_recent_stress |-> Avg(SumSeq(recent_stress), 3)]
  ELSE EmptyTrendInfo

trend_info(recent_entries) ==
  IF Len(recent_entries) >= 3
  THEN LET last3 == LastK(recent_entries, 3)
           recent_moods == [i \in 1..3 |-> MoodValue(last3[i].average_mood)]
           recent_stress == [i \in 1..3 |-> Stress(last3[i])]
       IN  [keys |-> {"mood_trend", "stress_trend", "avg_recent_mood", "avg_recent_stress"},
            mood_trend |-> IF recent_moods[3] > recent_moods[1] THEN "improving"
                           ELSE IF recent_moods[3] < recent_moods[1] THEN "declining"
                           ELSE "stable",
            stress_trend |-> IF recent_stress[3] > recent_stress[1] THEN "increasing"
                             ELSE IF recent_stress[3] < recent_stress[1] THEN "decreasing"
                             ELSE "stable",
            avg_recent_mood |-> Avg(SumSeq(recent_moods), 3),
            avg_recent_stress |-> Avg(SumSeq(recent_stress), 3)]
  ELSE EmptyTrendInfo

\* sleep_data and its mean: the strength or the improvement area it gives
RECURSIVE sleep_data(_)
sleep_data(recent_entries) ==
  IF recent_entries = <<>> THEN <<>>
  ELSE (IF Head(recent_entries).sleep # 0 THEN <<Head(recent_entries).sleep>> ELSE <<>>)
       \o sleep_data(Tail(recent_entries))

RECURSIVE stress_data(_)
stress_data(recent_entries) ==
  IF recent_entries = <<>> THEN <<>>
  ELSE <<Stress(Head(recent_entries))>> \o stress_data(Tail(recent_entries))

RECURSIVE activities(_)
activities(recent_entries) ==
  IF recent_entries = <<>> THEN <<>>
  ELSE (IF Head(recent_entries).activity # <<>> THEN <<Head(recent_entries).activity>> ELSE <<>>)
       \o activities(Tail(recent_entries))

\* mutant: the thresholds of the strengths are strict
strengths_mutant_strict(recent_entries) ==
  LET sl == sleep_data(recent_entries)
      st == stress_data(recent_entries)
  IN  (IF sl # <<>> /\ SumSeq(sl) > 15 * Len(sl) THEN <<"good_sleep">> ELSE <<>>)
      \o (IF st # <<>> /\ SumSeq(st) < 2 * Len(st) THEN <<"stress_management">> ELSE <<>>)
      \o (IF Len(activities(recent_entries)) > 5 THEN <<"activity_tracking">> ELSE <<>>)

\* avg_sleep >= 7.5 is sum >= 15 * len in half hours; avg_sleep < 6 is sum < 12 * len
strengths(recent_entries) ==
  LET sl == sleep_data(recent_entries)
      st == stress_data(recent_entries)
  IN  (IF sl # <<>> /\ SumSeq(sl) >= 15 * Len(sl) THEN <<"good_sleep">> ELSE <<>>)
      \o (IF st # <<>> /\ SumSeq(st) <= 2 * Len(st) THEN <<"stress_management">> ELSE <<>>)
      \o (IF Len(activities(recent_entries)) >= 5 THEN <<"activity_tracking">> ELSE <<>>)

improvement_areas(recent_entries) ==
  LET sl == sleep_data(recent_entries)
      st == stress_data(recent_entries)
  IN  (IF sl # <<>> /\ ~(SumSeq(sl) >= 15 * Len(sl)) /\ SumSeq(sl) < 12 * Len(sl)
       THEN <<"sleep">> ELSE <<>>)
      \o (IF st # <<>> /\ ~(SumSeq(st) <= 2 * Len(st)) /\ SumSeq(st) >= 4 * Len(st)
          THEN <<"stress">> ELSE <<>>)

RECURSIVE MoodSum(_)
MoodSum(s) ==
  IF s = <<>> THEN 0 ELSE MoodValue(Head(s).average_mood) + MoodSum(Tail(s))

\* mutant: improvement also when the two means are equal
comparison_mutant_nonstrict(sorted_entries) ==
  IF Len(sorted_entries) >= 14
  THEN LET n == Len(sorted_entries)
           last_week == SubSeq(sorted_entries, n - 13, n - 7)
           this_week == SubSeq(sorted_entries, n - 6, n)
       IN  [keys |-> {"last_week_avg", "this_week_avg", "improvement"},
            last_week_avg |-> Avg(MoodSum(last_week), Len(last_week)),
            this_week_avg |-> Avg(MoodSum(this_week), Len(this_week)),
            improvement |-> MoodSum(this_week) * Len(last_week)
                              >= MoodSum(last_week) * Len(this_week)]
  ELSE EmptyComparison

\* mutant: the week comparison starts at 13 entries
comparison_mutant_13(sorted_entries) ==
  IF Len(sorted_entries) >= 13
  THEN LET n == Len(sorted_entries)
           last_week == SubSeq(sorted_entries, IF n >= 14 THEN n - 13 ELSE 1, n - 7)
           this_week == SubSeq(sorted_entries, n - 6, n)
       IN  [keys |-> {"last_week_avg", "this_week_avg", "improvement"},
            last_week_avg |-> Avg(MoodSum(last_week), Len(last_week)),
            this_week_avg |-> Avg(MoodSum(this_week), Len(this_week)),
            improvement |-> MoodSum(this_week) * Len(last_week)
                              > MoodSum(last_week) * Len(this_week)]
  ELSE EmptyComparison

\* the week comparison: sorted_entries[-14:-7] against sorted_entries[-7:]
comparison(sorted_entries) ==
  IF Len(sorted_entries) >= 14
  THEN LET n == Len(sorted_entries)
           last_week == SubSeq(sorted_entries, n - 13, n - 7)
           this_week == SubSeq(sorted_entries, n - 6, n)
       IN  [keys |-> {"last_week_avg", "this_week_avg", "improvement"},
            last_week_avg |-> Avg(MoodSum(last_week), Len(last_week)),
            this_week_avg |-> Avg(MoodSum(this_week), Len(this_week)),
            improvement |-> MoodSum(this_week) * Len(last_week)
                              > MoodSum(last_week) * Len(this_week)]
  ELSE EmptyComparison

\* mutant: the caller's list is sorted in place (entries.sort)
entries_after_mutant_sort(all_entries) == SortByDate(all_entries)

\* The caller's list after analyze_mood_patterns: sorted() builds a new list
\* and the slices are new lists, so the list handed in keeps its order and
\* its entries; no entry is assigned to.
entries_after_call(all_entries) == all_entries

\* mutant: a single entry is analyzed like a longer history
analyze_mutant_noguard(all_entries, cur) ==
  LET sorted_entries == SortByDate(all_entries)
      recent_entries == LastK(sorted_entries, 7)
  IN  [keys |-> AnalysisKeys,
       streak_info |-> streak_info(recent_entries),
       trend_info |-> trend_info(recent_entries),
       improvement_areas |-> improvement_areas(recent_entries),
       strengths |-> strengths(recent_entries),
       comparison |-> comparison(sorted_entries)]

analyze_mood_patterns(all_entries, cur) ==
  IF Len(all_entries) < 2 THEN EmptyAnalysis
  ELSE LET sorted_entries == SortByDate(all_entries)
           recent_entries == LastK(sorted_entries, 7)
       IN  [keys |-> AnalysisKeys,
            streak_info |-> streak_info(recent_entries),
            trend_info |-> trend_info(recent_entries),
            improvement_areas |-> improvement_areas(recent_entries),
            strengths |-> strengths(recent_entries),
            comparison |-> comparison(sorted_entries)]

\* ------------------------------------------------------------------------
\* Texts
\* ------------------------------------------------------------------------
UPPER == <<"A","B","C","D","E","F","G","H","I","J","K","L","M",
           "N","O","P","Q","R","S","T","U","V","W","X","Y","Z">>
LOWER == <<"a","b","c","d","e","f","g","h","i","j","k","l","m",
           "n","o","p","q","r","s","t","u","v","w","x","y","z">>

LowerChar(c) ==
  IF \E i \in DOMAIN UPPER : UPPER[i] = c
  THEN LOWER[CHOOSE i \in DOMAIN UPPER : UPPER[i] = c]
  ELSE c

\* str.lower()
Lower(text) == [i \in DOMAIN text |-> LowerChar(text[i])]

\* word in text (substring test)
Contains(text, word) ==
  \E i \in 1..(Len(text) - Len(word) + 1) : SubSeq(text, i, i + Len(word) - 1) = word

ExerciseWords ==
  {<<"e","x","e","r","c","i","s","e">>, <<"w","a","l","k">>, <<"r","u","n">>,
   <<"g","y","m">>, <<"s","p","o","r","t">>}
MindfulWords ==
  {<<"m","e","d","i","t","a","t">>, <<"y","o","g","a">>, <<"r","e","l","a","x">>}
SocialWords ==
  {<<"f","r","i","e","n","d">>, <<"s","o","c","i","a","l">>, <<"f","a","m","i","l","y">>}

\* ------------------------------------------------------------------------
\* get_contextual_notification
\* ------------------------------------------------------------------------
\* A clause of the message is [id, arg]: id names the template, arg is the
\* number the template cites (0 when it cites none).  A message is the
\* sequence of its clauses; the source joins them with single spaces.
Clause(id, arg) == [id |-> id, arg |-> arg]

\* analysis.get('streak_info', {}).get('good_mood_streak', 0)
GetStreak(analysis) ==
  IF "streak_info" \in analysis.keys /\ "good_mood_streak" \in analysis.streak_info.keys
  THEN analysis.streak_info.good_mood_streak ELSE 0

\* analysis.get('trend_info', {}).get(key)
GetTrend(analysis, key) ==
  IF "trend_info" \in analysis.keys /\ key \in analysis.trend_info.keys
  THEN analysis.trend_info[key] ELSE None

GetStrengths(analysis) == IF "strengths" \in analysis.keys THEN analysis.strengths ELSE <<>>

GetImprovements(analysis) ==
  IF "improvement_areas" \in analysis.keys THEN analysis.improvement_areas ELSE <<>>

\* analysis.get('comparison', {}).get('improvement')
GetImprovement(analysis) ==
  "comparison" \in analysis.keys /\ "improvement" \in analysis.comparison.keys
  /\ analysis.comparison.improvement

\* f"{improvement:.1f}" in tenths, improvement = this_week_avg - last_week_avg;
\* both means are over 7 entries, and no difference of two such means lies
\* halfway between two tenths
Tenths(cmp) ==
  LET d == cmp.this_week_avg.num * cmp.last_week_avg.den
             - cmp.last_week_avg.num * cmp.this_week_avg.den
      q == cmp.this_week_avg.den * cmp.last_week_avg.den
  IN  (20 * d + q) \div (2 * q)

opening(mood_value, analysis) ==
  IF mood_value = 4
  THEN IF GetStreak(analysis) >= 3
       THEN Clause("great_streak", GetStreak(analysis))
       ELSE Clause("great", 0)
  ELSE IF mood_value = 3
  THEN IF GetTrend(analysis, "mood_trend") = "improving"
       THEN Clause("good_improving", 0)
       ELSE Clause("good", 0)
  ELSE IF mood_value = 2
  THEN IF GetStreak(analysis) > 0
       THEN Clause("neutral_after_good", 0)
       ELSE Clause("neutral", 0)
  ELSE IF GetTrend(analysis, "mood_trend") = "improving"
       THEN Clause("sad_improving", 0)
       ELSE Clause("sad", 0)

strength_clauses(analysis, stress_level) ==
  LET s == Range(GetStrengths(analysis))
  IN  IF s # {}
      THEN (IF "good_sleep" \in s THEN <<Clause("strength_sleep", 0)>> ELSE <<>>)
           \o (IF "stress_management" \in s /\ stress_level <= 2
               THEN <<Clause("strength_stress", 0)>> ELSE <<>>)
           \o (IF "activity_tracking" \in s THEN <<Clause("strength_activity", 0)>> ELSE <<>>)
      ELSE <<>>

trend_clause(analysis) ==
  IF GetTrend(analysis, "mood_trend") = "improving"
  THEN <<Clause("trend_improving", 0)>>
  ELSE IF GetTrend(analysis, "stress_trend") = "decreasing"
  THEN <<Clause("stress_decreasing", 0)>>
  ELSE <<>>

comparison_clause(analysis) ==
  IF GetImprovement(analysis)
  THEN <<Clause("week_comparison", Tenths(analysis.comparison))>>
  ELSE <<>>

\* mutant: the night begins at 23 and the evening lasts through 22
time_clause_mutant_late(current_hour, mood_value) ==
  IF 23 <= current_hour \/ current_hour < 6
  THEN IF mood_value >= 3 THEN <<Clause("night_positive", 0)>>
       ELSE IF mood_value = 2 THEN <<Clause("night_neutral", 0)>>
       ELSE <<Clause("night_low", 0)>>
  ELSE IF 6 <= current_hour /\ current_hour < 12
  THEN IF mood_value >= 3 THEN <<Clause("morning_positive", 0)>>
       ELSE <<Clause("morning_low", 0)>>
  ELSE IF 12 <= current_hour /\ current_hour < 17
  THEN IF mood_value >= 3 THEN <<Clause("afternoon_positive", 0)>>
       ELSE <<Clause("afternoon_low", 0)>>
  ELSE IF 17 <= current_hour /\ current_hour < 23
  THEN IF mood_value >= 3 THEN <<Clause("evening_positive", 0)>>
       ELSE <<Clause("evening_low", 0)>>
  ELSE <<>>

time_clause(current_hour, mood_value) ==
  IF 22 <= current_hour \/ current_hour < 6
  THEN IF mood_value >= 3 THEN <<Clause("night_positive", 0)>>
       ELSE IF mood_value = 2 THEN <<Clause("night_neutral", 0)>>
       ELSE <<Clause("night_low", 0)>>
  ELSE IF 6 <= current_hour /\ current_hour < 12
  THEN IF mood_value >= 3 THEN <<Clause("morning_positive", 0)>>
       ELSE <<Clause("morning_low", 0)>>
  ELSE IF 12 <= current_hour /\ current_hour < 17
  THEN IF mood_value >= 3 THEN <<Clause("afternoon_positive", 0)>>
       ELSE <<Clause("afternoon_low", 0)>>
  ELSE IF 17 <= current_hour /\ current_hour < 22
  THEN IF mood_value >= 3 THEN <<Clause("evening_positive", 0)>>
       ELSE <<Clause("evening_low", 0)>>
  ELSE <<>>

\* sleep >= 8 is 16 half hours, sleep < 6 is 12 half hours
sleep_clause(cur, mood_value) ==
  IF cur.sleep # 0
  THEN IF cur.sleep >= 16 /\ mood_value >= 3 THEN <<Clause("sleep_working", cur.sleep)>>
       ELSE IF cur.sleep < 12 /\ mood_value <= 2 THEN <<Clause("more_sleep", 0)>>
       ELSE <<>>
  ELSE <<>>

\* mutant: the mindfulness words are looked for before the exercise words
activity_clause_mutant_mindful_first(cur) ==
  LET activity == Lower(cur.activity)
  IN  IF activity # <<>>
      THEN IF \E w \in MindfulWords : Contains(activity, w)
           THEN <<Clause("activity_mindful", 0)>>
           ELSE IF \E w \in ExerciseWords : Contains(activity, w)
           THEN <<Clause("activity_exercise", 0)>>
           ELSE IF \E w \in SocialWords : Contains(activity, w)
           THEN <<Clause("activity_social", 0)>>
           ELSE <<>>
      ELSE <<>>

activity_clause(cur) ==
  LET activity == Lower(cur.activity)
  IN  IF activity # <<>>
      THEN IF \E w \in ExerciseWords : Contains(activity, w)
           THEN <<Clause("activity_exercise", 0)>>
           ELSE IF \E w \in MindfulWords : Contains(activity, w)
           THEN <<Clause("activity_mindful", 0)>>
           ELSE IF \E w \in SocialWords : Contains(activity, w)
           THEN <<Clause("activity_social", 0)>>
           ELSE <<>>
      ELSE <<>>

suggestion_clause(analysis, mood_value, stress_level) ==
  LET improvements == Range(GetImprovements(analysis))
  IN  IF mood_value <= 2 /\ "sleep" \in improvements
      THEN <<Clause("suggest_sleep", 0)>>
      ELSE IF "stress" \in improvements /\ stress_level >= 4
      THEN <<Clause("suggest_stress", 0)>>
      ELSE <<>>

\* message_parts as it stands before the parts are combined
accumulate(mood_value, stress_level, cur, analysis, current_hour) ==
  <<opening(mood_value, analysis)>>
  \o strength_clauses(analysis, stress_level)
  \o trend_clause(analysis)
  \o comparison_clause(analysis)
  \o time_clause(current_hour, mood_value)
  \o sleep_clause(cur, mood_value)
  \o activity_clause(cur)
  \o suggestion_clause(analysis, mood_value, stress_level)

\* mutant: every accumulated clause is kept
combine_mutant_nocap(parts) == parts

\* mutant: the opening and three more clauses are kept
combine_mutant_four(parts) == FirstK(parts, 4)

\* "Combine message parts naturally": one, two, or the first three parts
combine(parts) ==
  IF Len(parts) = 1 THEN <<parts[1]>>
  ELSE IF Len(parts) = 2 THEN <<parts[1], parts[2]>>
  ELSE <<parts[1], parts[2], parts[3]>>

\* mutant: the total is cited from the eighth entry on
closing_mutant_eight(total_entries, mood_value) ==
  IF total_entries > 7 THEN Clause("close_tracking", total_entries)
  ELSE IF mood_value >= 3 THEN Clause("close_positive", 0)
  ELSE Clause("close_tomorrow", 0)

closing(total_entries, mood_value) ==
  IF total_entries >= 7 THEN Clause("close_tracking", total_entries)
  ELSE IF mood_value >= 3 THEN Clause("close_positive", 0)
  ELSE Clause("close_tomorrow", 0)

ClosingIds == {"close_tracking", "close_positive", "close_tomorrow"}

\* The result of a call: the message, and message_parts as accumulated.
\* MOOD_OPTIONS[average_mood] raises KeyError for a mood that is no key.
Raised == [raised |-> TRUE, message_parts |-> <<>>, final_message |-> <<>>]

get_contextual_notification(average_mood, stress_level, cur, all_entries, current_hour) ==
  IF average_mood \notin MoodKeys THEN Raised
  ELSE LET mood_value == MOOD_OPTIONS[average_mood].value
           analysis == analyze_mood_patterns(all_entries, cur)
           parts == accumulate(mood_value, stress_level, cur, analysis, current_hour)
       IN  [raised |-> FALSE,
            message_parts |-> parts,
            final_message |-> combine(parts)
                                \o <<closing(Len(all_entries), mood_value)>>]

\* ------------------------------------------------------------------------
\* Bounds and input pools
\* ------------------------------------------------------------------------
\* dates a session saves entries for
MaxDate == 2
\* length of the histories whose moods are enumerated in full
MaxShort == 6
\* length of the histories supplied in every order
MaxPerm == 3
\* length of the longest history handed to the analyzer
MaxHist == 15
\* number of file writes that fail in one run of the session
MaxFail == 1

MoodOrNone == {None} \cup MoodKeys
Hours == 0..23

\* ------------------------------------------------------------------------
\* State
\* ------------------------------------------------------------------------
VARIABLES
  logged_in,             \* st.session_state.logged_in
  username,              \* st.session_state.username
  entries,               \* st.session_state.entries, or the history given to a call
  show_notification,     \* st.session_state.show_notification
  notification_message,  \* st.session_state.notification_message, or the message returned
  save_status,           \* st.session_state.save_status
  disk,                  \* the data file of each user hash
  current_entry,         \* the entry of the last save or call
  average_mood,          \* what the last calculate_average_mood returned
  analysis,              \* what the last analyze_mood_patterns returned
  message_parts,         \* message_parts of the last get_contextual_notification
  call,                  \* the last operation and its scalar inputs and outcome
  failures,              \* file writes that have failed so far
  clock                  \* the hour datetime.now() reports

vars == <<logged_in, username, entries, show_notification, notification_message,
          save_status, disk, current_entry, average_mood, analysis, message_parts,
          call, failures, clock>>

\* an entry as main builds it; slots is the tuple of the six selectbox values
Entry(date, slots, sleep, stress, activity, avg) ==
  [date |-> date, sleep |-> sleep, stress |-> stress, activity |-> activity,
   mood_6_9 |-> slots[1], mood_9_12 |-> slots[2], mood_12_3 |-> slots[3],
   mood_3_6 |-> slots[4], mood_6_9pm |-> slots[5], mood_9_12am |-> slots[6],
   average_mood |-> avg]

SlotsOf(e) == [i \in DOMAIN TIME_SLOTS |-> e[TIME_SLOTS[i]]]

NoSlots == [i \in DOMAIN TIME_SLOTS |-> ""]
NoEntry == Entry(0, NoSlots, 0, 0, <<>>, None)
NoCall == [op |-> "none", date |-> 0, stress_level |-> 0, current_hour |-> 0,
           index |-> 0, raised |-> FALSE, saved |-> FALSE, resaved |-> FALSE]

Call(op) == [NoCall EXCEPT !.op = op]

\* ------------------------------------------------------------------------
\* Files
\* ------------------------------------------------------------------------
\* str.strip() for the blank
RECURSIVE StripLeft(_)
StripLeft(text) ==
  IF text # <<>> /\ Head(text) = " " THEN StripLeft(Tail(text)) ELSE text

Strip(text) == Reverse(StripLeft(Reverse(StripLeft(text))))

\* mutant: every name has the same hash
hash_username_mutant_shared(name) == <<"a", "m", "y">>

\* hash_username: md5 of the lower-cased name; md5 is taken to be injective,
\* so the hash is the lower-cased name itself
hash_username(name) == Lower(name)

\* what the login page can be given
LoginInputs ==
  {<<>>, <<" ", " ">>, <<"a", "b">>, <<" ", "a", "b", " ">>,
   <<"a", "m", "y">>, <<" ", "A", "m", "y", " ">>, <<"b", "o", "b">>}

\* the inputs of a session of one user
OneUserInputs == {<<>>, <<" ", "a", "b", " ">>, <<" ", "A", "m", "y", " ">>}

UserHashes == {hash_username(Strip(u)) : u \in {v \in LoginInputs : Len(Strip(v)) >= 3}}

\* a data file: missing, unreadable as JSON, or holding the dumped entries.
\* json.dump and json.load return the entries as they were: the fields are
\* strings, numbers and None.
NoFile == [exists |-> FALSE, valid |-> FALSE, entries |-> <<>>]
CorruptFile == [exists |-> TRUE, valid |-> FALSE, entries |-> <<>>]
DataFile(es) == [exists |-> TRUE, valid |-> TRUE, entries |-> es]

\* how a call of save_user_data can end: both files written; open of the data
\* file refused; the dump interrupted after the file was truncated; the data
\* file written and the notifications file refused
WriteOutcomes == {"ok", "fail_open", "fail_dump", "fail_notifications"}

\* the data file save_user_data leaves behind
save_user_data(d, name, es, outcome) ==
  LET h == hash_username(name)
  IN  IF outcome = "fail_open" THEN d
      ELSE IF outcome = "fail_dump" THEN [d EXCEPT ![h] = CorruptFile]
      ELSE [d EXCEPT ![h] = DataFile(es)]

\* the value save_user_data returns
save_success(outcome) == outcome = "ok"

\* the entries load_user_data returns
load_user_data(d, name) ==
  LET f == d[hash_username(name)]
  IN  IF f.exists /\ f.valid THEN f.entries ELSE <<>>

Failed(outcomes) == Cardinality({i \in DOMAIN outcomes : outcomes[i] # "ok"})

\* ------------------------------------------------------------------------
\* The session handlers
\* ------------------------------------------------------------------------
\* current_entry, average_mood, analysis and message_parts are locals of the
\* handler that ran last; a handler that has none of them leaves no value.
Returned(c) ==
  /\ call' = c
  /\ current_entry' = NoEntry
  /\ average_mood' = None
  /\ analysis' = EmptyAnalysis
  /\ message_parts' = <<>>

\* The login page runs while logged_in is false.  A successful login reruns
\* the script, which loads the user's entries: the key entries is never in the
\* session at that point (it is set only while logged in, and logout deletes
\* every key), so the load always happens.
Enter(name) ==
  /\ username' = name
  /\ logged_in' = TRUE
  /\ entries' = load_user_data(disk, name)
  /\ show_notification' = FALSE
  /\ notification_message' = <<>>

\* mutant: a refused name is kept as the username of the session
Login_mutant_keeps_name(raw) ==
  /\ ~logged_in
  /\ LET name == Strip(raw)
     IN  IF name # <<>> /\ Len(name) >= 3
         THEN Enter(name)
         ELSE /\ username' = name
              /\ UNCHANGED <<logged_in, entries, show_notification,
                             notification_message>>
  /\ Returned(Call("login"))
  /\ UNCHANGED <<save_status, disk, failures, clock>>

\* the button "Start Tracking"
Login(raw) ==
  /\ ~logged_in
  /\ LET name == Strip(raw)
     IN  IF name # <<>> /\ Len(name) >= 3
         THEN Enter(name)
         ELSE UNCHANGED <<username, logged_in, entries, show_notification,
                          notification_message>>
  /\ Returned(Call("login"))
  /\ UNCHANGED <<save_status, disk, failures, clock>>

\* the button "Create Account"
CreateAccount(raw) ==
  /\ ~logged_in
  /\ LET name == Strip(raw)
     IN  IF name # <<>> /\ Len(name) >= 3 /\ ~disk[hash_username(name)].exists
         THEN Enter(name)
         ELSE UNCHANGED <<username, logged_in, entries, show_notification,
                          notification_message>>
  /\ Returned(Call("create_account"))
  /\ UNCHANGED <<save_status, disk, failures, clock>>

\* the button "Logout": every key of the session is deleted and the rerun
\* initializes logged_in and username again
Logout ==
  /\ logged_in
  /\ logged_in' = FALSE
  /\ username' = <<>>
  /\ entries' = <<>>
  /\ show_notification' = FALSE
  /\ notification_message' = <<>>
  /\ save_status' = None
  /\ Returned(Call("logout"))
  /\ UNCHANGED <<disk, failures, clock>>

\* the first index whose entry has the date, 0 when there is none
\* (existing_index, counted from 1)
existing_index(es, date) ==
  IF \E i \in DOMAIN es : es[i].date = date
  THEN CHOOSE i \in DOMAIN es :
         /\ es[i].date = date
         /\ \A j \in 1..(i - 1) : es[j].date # date
  ELSE 0

\* mutant: the replaced entry moves to the end
store_mutant_move(es, entry) ==
  LET i == existing_index(es, entry.date)
  IN  IF i > 0
      THEN SubSeq(es, 1, i - 1) \o SubSeq(es, i + 1, Len(es)) \o <<entry>>
      ELSE Append(es, entry)

\* the entries after the save handler stored the entry
store(es, entry) ==
  LET i == existing_index(es, entry.date)
  IN  IF i > 0 THEN [es EXCEPT ![i] = entry] ELSE Append(es, entry)

\* mutant: an entry without moods is scored Neutral
entry_average_mutant_neutral(entry, mood_data) ==
  LET filled_moods == SelectSeq(mood_data, LAMBDA m : m # "")
  IN  IF filled_moods # <<>> THEN calculate_average_mood(entry) ELSE "Neutral"

\* mutant: the average is the mood of the first filled slot
entry_average_mutant_first(entry, mood_data) ==
  LET filled_moods == SelectSeq(mood_data, LAMBDA m : m # "")
  IN  IF filled_moods # <<>> THEN Head(filled_moods) ELSE None

\* entry['average_mood'] as the save handler sets it
entry_average(entry, mood_data) ==
  LET filled_moods == SelectSeq(mood_data, LAMBDA m : m # "")
  IN  IF filled_moods # <<>> THEN calculate_average_mood(entry) ELSE None

\* the button "Save Entry" / "Update Entry"; w1 and w2 are the outcomes of
\* the two calls of save_user_data (the second is made only with a message)
Save(entry_date, mood_data, sleep_hours, stress_level, activity, w1, w2) ==
  /\ logged_in
  /\ LET filled_moods == SelectSeq(mood_data, LAMBDA m : m # "")
         entry0 == Entry(entry_date, mood_data, sleep_hours, stress_level, activity, None)
         entry == [entry0 EXCEPT !.average_mood = entry_average(entry0, mood_data)]
         idx == existing_index(entries, entry.date)
         es == store(entries, entry)
         d1 == save_user_data(disk, username, es, w1)
         notify == entry.average_mood # None
         res == get_contextual_notification(entry.average_mood, stress_level, entry,
                                            es, clock)
     IN  /\ Failed(IF notify THEN <<w1, w2>> ELSE <<w1>>) + failures <= MaxFail
         /\ ~notify => w2 = "ok"
         /\ failures' = failures + Failed(IF notify THEN <<w1, w2>> ELSE <<w1>>)
         /\ current_entry' = entry
         /\ entries' = es
         /\ save_status' =
              IF idx > 0
              THEN IF save_success(w1) THEN "updated_ok" ELSE "updated_warning"
              ELSE IF save_success(w1)
                   THEN IF filled_moods # <<>> THEN "saved_ok" ELSE "partial_ok"
                   ELSE "added_warning"
         /\ IF notify
            THEN /\ notification_message' = res.final_message
                 /\ message_parts' = res.message_parts
                 /\ show_notification' = TRUE
                 /\ analysis' = analyze_mood_patterns(es, entry)
                 /\ disk' = save_user_data(d1, username, es, w2)
            ELSE /\ disk' = d1
                 /\ message_parts' = <<>>
                 /\ analysis' = EmptyAnalysis
                 /\ UNCHANGED <<notification_message, show_notification>>
         /\ average_mood' = entry.average_mood
         /\ call' = [NoCall EXCEPT !.op = "save", !.date = entry_date,
                                   !.stress_level = stress_level,
                                   !.current_hour = clock,
                                   !.index = idx,
                                   !.saved = save_success(w1),
                                   !.resaved = notify /\ save_success(w2)]
  /\ UNCHANGED <<logged_in, username, clock>>

\* mutant: the last entry takes the place of the removed one
Remove_mutant_swap(es, e) ==
  IF \E i \in DOMAIN es : es[i] = e
  THEN LET i == CHOOSE k \in DOMAIN es : es[k] = e /\ \A j \in 1..(k - 1) : es[j] # e
       IN  IF i = Len(es) THEN SubSeq(es, 1, Len(es) - 1)
           ELSE SubSeq([es EXCEPT ![i] = es[Len(es)]], 1, Len(es) - 1)
  ELSE es

\* the first entry equal to e is removed (list.remove)
RECURSIVE Remove(_, _)
Remove(es, e) ==
  IF es = <<>> THEN <<>>
  ELSE IF Head(es) = e THEN Tail(es)
  ELSE <<Head(es)>> \o Remove(Tail(es), e)

\* the button "Delete" of the i-th expander of the history view, which lists
\* the entries by date, most recent first
Delete(i, w) ==
  /\ logged_in
  /\ i \in DOMAIN entries
  /\ Failed(<<w>>) + failures <= MaxFail
  /\ LET sorted_entries == Reverse(SortByDate(Reverse(entries)))
         entry == sorted_entries[i]
         es == Remove(entries, entry)
     IN  /\ entries' = es
         /\ disk' = save_user_data(disk, username, es, w)
         /\ current_entry' = entry
         /\ call' = [NoCall EXCEPT !.op = "delete", !.date = entry.date, !.index = i,
                                   !.saved = save_success(w)]
  /\ failures' = failures + Failed(<<w>>)
  /\ average_mood' = None
  /\ analysis' = EmptyAnalysis
  /\ message_parts' = <<>>
  /\ UNCHANGED <<logged_in, username, show_notification, notification_message,
                 save_status, clock>>

\* the button "Close Notification"
CloseNotification ==
  /\ logged_in
  /\ show_notification /\ notification_message # <<>>
  /\ show_notification' = FALSE
  /\ Returned(Call("close_notification"))
  /\ UNCHANGED <<logged_in, username, entries, notification_message, save_status,
                 disk, failures, clock>>

\* the button "Clear Status"
ClearStatus ==
  /\ logged_in
  /\ save_status # None
  /\ save_status' = None
  /\ Returned(Call("clear_status"))
  /\ UNCHANGED <<logged_in, username, entries, show_notification,
                 notification_message, disk, failures, clock>>

\* ------------------------------------------------------------------------
\* Specification of the session: login, save, delete, logout
\* ------------------------------------------------------------------------
\* the forms a session submits: no slot filled, one slot, means on and off
\* the thresholds
FormMoods ==
  {NoSlots,
   <<"Sad", "Neutral", "", "", "", "">>,
   <<"Good", "", "Great", "", "Great", "">>}
FormSleep == {16}
FormStress == {1}
FormActivity == {<<>>}
FormHours == {9}

InitSession ==
  /\ logged_in = FALSE
  /\ username = <<>>
  /\ entries = <<>>
  /\ show_notification = FALSE
  /\ notification_message = <<>>
  /\ save_status = None
  /\ disk = [h \in UserHashes |-> NoFile]
  /\ failures = 0
  /\ clock \in FormHours

InitCalls ==
  /\ current_entry = NoEntry
  /\ average_mood = None
  /\ analysis = EmptyAnalysis
  /\ message_parts = <<>>
  /\ call = NoCall

Init == InitSession /\ InitCalls

\* the writes of this session succeed
SessionWrites == {"ok"}

SaveAny ==
  \E d \in 1..MaxDate, m \in FormMoods, sl \in FormSleep, st \in FormStress,
     a \in FormActivity, w1 \in SessionWrites, w2 \in SessionWrites :
    Save(d, m, sl, st, a, w1, w2)

Next ==
  \/ \E raw \in OneUserInputs : Login(raw)
  \/ \E raw \in OneUserInputs : CreateAccount(raw)
  \/ Logout
  \/ SaveAny
  \/ \E i \in 1..MaxDate, w \in SessionWrites : Delete(i, w)
  \/ CloseNotification
  \/ ClearStatus

Spec == Init /\ [][Next]_vars

\* ------------------------------------------------------------------------
\* Specification of the scorer: every assignment of the six slots is scored
\* by calculate_average_mood, and every form is saved once
\* ------------------------------------------------------------------------
SlotValues == {Absent, ""} \cup MoodKeys

\* the entry an earlier save left for the date of the form
EarlierEntry ==
  Entry(1, <<"Good", "Good", "", "", "", "">>, 14, 2, <<>>, "Good")

InitScore ==
  /\ logged_in = TRUE
  /\ username = <<"a", "m", "y">>
  /\ entries \in {<<>>, <<EarlierEntry>>}
  /\ show_notification = FALSE
  /\ notification_message = <<>>
  /\ save_status = None
  /\ disk = [h \in UserHashes |->
               IF h = hash_username(username) /\ entries # <<>>
               THEN DataFile(entries) ELSE NoFile]
  /\ failures = 0
  /\ clock \in FormHours
  /\ \E slots \in [DOMAIN TIME_SLOTS -> SlotValues] :
       current_entry = Entry(1, slots, 16, 1, <<>>, None)
  /\ average_mood = None
  /\ analysis = EmptyAnalysis
  /\ message_parts = <<>>
  /\ call = NoCall

\* a call of calculate_average_mood on the entry
Score ==
  /\ call.op = "none"
  /\ average_mood' = calculate_average_mood(current_entry)
  /\ call' = Call("calculate_average_mood")
  /\ UNCHANGED <<logged_in, username, entries, show_notification, notification_message,
                 save_status, disk, current_entry, analysis, message_parts, failures,
                 clock>>

\* the form holding the slots is saved (a selectbox never yields a missing key)
SaveForm ==
  /\ call.op = "none"
  /\ \A i \in DOMAIN TIME_SLOTS : current_entry[TIME_SLOTS[i]] # Absent
  /\ \E w1 \in SessionWrites, w2 \in SessionWrites :
       Save(1, SlotsOf(current_entry), 16, 1, <<>>, w1, w2)

NextScore == Score \/ SaveForm

SpecScore == InitScore /\ [][NextScore]_vars

\* ------------------------------------------------------------------------
\* Specification of the analyzer: analyze_mood_patterns is called on
\* histories of bounded families
\* ------------------------------------------------------------------------
\* a day whose six slots all hold the mood (none when the mood is None), with
\* the average the scorer gives it
Day(date, mood, stress, sleep, activity) ==
  LET slots == [i \in DOMAIN TIME_SLOTS |-> IF mood = None THEN "" ELSE mood]
      e == Entry(date, slots, sleep, stress, activity, None)
  IN  [e EXCEPT !.average_mood = calculate_average_mood(e)]

Perms(n) == {p \in [1..n -> 1..n] : \A i, j \in 1..n : p[i] = p[j] => i = j}

\* stress levels of the trend histories; 0 is an entry without the key
TrendStress == {0, 1, 3, 5}

\* how a history is supplied: by date, or most recent first
Orders == {"ascending", "descending"}

Supplied(h, order) == IF order = "ascending" THEN h ELSE Reverse(h)

\* every mood sequence of a short history, dates ascending
ShortHistory(h) ==
  \E n \in 0..MaxShort : \E m \in [1..n -> MoodOrNone] :
    h = [i \in 1..n |-> Day(i, m[i], 3, 16, <<>>)]

\* every mood sequence supplied in every order of the dates
PermutedHistory(h) ==
  \E n \in 2..MaxPerm : \E p \in Perms(n) : \E m \in [1..n -> MoodOrNone] :
    h = [i \in 1..n |-> Day(p[i], m[i], 3, 16, <<>>)]

\* every mood and stress of the three newest entries, after 0 or 1 older entry
TrendHistory(h) ==
  \E n \in 2..4 : \E m \in [1..3 -> MoodOrNone] : \E s \in [1..3 -> TrendStress] :
    h = [i \in 1..n |->
           IF n - i < 3 THEN Day(i, m[3 - (n - i)], s[3 - (n - i)], 16, <<>>)
           ELSE Day(i, "Neutral", 3, 16, <<>>)]

\* long histories: every entry has mood b, but for at most two with mood a
LongHistory(h) ==
  \E n \in 0..MaxHist : \E i \in 0..n : \E j \in i..n :
    \E a \in MoodOrNone, b \in MoodOrNone, order \in Orders :
      h = Supplied([k \in 1..n |-> Day(k, IF k \in {i, j} THEN a ELSE b, 3, 16, <<>>)],
                   order)

\* what a day of a habit history records: sleep in half hours (0 is none),
\* stress (0 is an entry without the key), activity
Habits ==
  {[sleep |-> s, stress |-> 3, activity |-> <<>>] : s \in {0, 10, 12, 14, 15, 16}}
  \cup {[sleep |-> 0, stress |-> t, activity |-> <<>>] : t \in 0..5}
  \cup {[sleep |-> 16, stress |-> 3, activity |-> <<"w","a","l","k">>]}

\* habit histories: the k newest days have one habit, the older days another;
\* the longest ones have days older than the last 7
HabitHistory(h) ==
  \E n \in 2..(MaxShort + 3) : \E k \in 0..n : \E new \in Habits, old \in Habits,
     order \in Orders :
    h = Supplied([i \in 1..n |->
                    LET p == IF n - i < k THEN new ELSE old
                    IN  Day(i, "Good", p.stress, p.sleep, p.activity)],
                 order)

InitAnalyze ==
  /\ logged_in = FALSE
  /\ username = <<>>
  /\ show_notification = FALSE
  /\ notification_message = <<>>
  /\ save_status = None
  /\ disk = [h \in UserHashes |-> NoFile]
  /\ failures = 0
  /\ clock \in FormHours
  /\ \/ ShortHistory(entries)
     \/ PermutedHistory(entries)
     \/ TrendHistory(entries)
     \/ LongHistory(entries)
     \/ HabitHistory(entries)
  /\ current_entry = IF entries = <<>> THEN NoEntry ELSE entries[Len(entries)]
  /\ average_mood = None
  /\ analysis = EmptyAnalysis
  /\ message_parts = <<>>
  /\ call = NoCall

\* a call of analyze_mood_patterns(entries, current_entry)
Analyze ==
  /\ call.op = "none"
  /\ analysis' = analyze_mood_patterns(entries, current_entry)
  /\ call' = Call("analyze_mood_patterns")
  /\ entries' = entries_after_call(entries)
  /\ UNCHANGED <<logged_in, username, show_notification, notification_message,
                 save_status, disk, current_entry, average_mood, message_parts, failures,
                 clock>>

NextAnalyze == Analyze

SpecAnalyze == InitAnalyze /\ [][NextAnalyze]_vars

\* ------------------------------------------------------------------------
\* Specification of the message builder: get_contextual_notification is
\* called as the save handler calls it, on the entry just stored, its average
\* mood and its stress level, at the hour of the clock
\* ------------------------------------------------------------------------
ActivityTexts ==
  {<<>>,
   <<"M","o","r","n","i","n","g"," ","R","u","n">>,
   <<"y","o","g","a"," ","w","a","l","k">>,
   <<"r","e","l","a","x"," ","w","i","t","h"," ","f","a","m","i","l","y">>,
   <<"f","r","i","e","n","d","s">>,
   <<"b","r","u","n","c","h">>,
   <<"w","o","r","k">>}

\* sleep of the current entry in half hours: none, 5, 6, 8 and 8.5 hours
CurrentSleep == {0, 10, 12, 16, 17}

\* the other days of a history: [stress, sleep, activity] of each of them
Lifestyles ==
  {[stress |-> 1, sleep |-> 17, activity |-> <<"y","o","g","a">>],
   [stress |-> 3, sleep |-> 14, activity |-> <<>>],
   [stress |-> 5, sleep |-> 10, activity |-> <<>>]}

\* the current entry of the histories that vary the other days
CurrentProfiles ==
  {[stress |-> 1, sleep |-> 17, activity |-> <<"m","o","r","n","i","n","g"," ","r","u","n">>],
   [stress |-> 5, sleep |-> 10, activity |-> <<>>]}

\* one hour of each part of the day
SomeHours == {3, 9, 14, 19}

\* The current entry takes every mood, stress, sleep and activity, at every
\* hour; it is the newest of 1 to 3 entries.
CurrentVaried ==
  \E n \in 1..3 : \E m \in MoodKeys, st \in 1..5, sl \in CurrentSleep,
     a \in ActivityTexts, h \in Hours :
    /\ entries = [i \in 1..n |-> IF i = n THEN Day(i, m, st, sl, a)
                                         ELSE Day(i, "Good", 3, 14, <<>>)]
    /\ current_entry = entries[n]
    /\ clock = h

\* The history varies: n entries, the current one the newest or back-dated to
\* the oldest date; of the other days the k newest have mood a, the older
\* ones mood b.
HistoryVaried ==
  \E n \in 1..MaxHist : \E k \in 0..(n - 1) :
    \E a \in {"Sad", "Great"}, b \in {None, "Neutral", "Great"}, life \in Lifestyles,
       m \in MoodKeys, cur \in CurrentProfiles, newest \in BOOLEAN, h \in SomeHours :
      LET c == IF newest THEN n ELSE 1
          others == IF newest THEN 1..(n - 1) ELSE 2..n
      IN  /\ entries =
                [i \in 1..n |->
                   IF i = c THEN Day(i, m, cur.stress, cur.sleep, cur.activity)
                   ELSE Day(i, IF Cardinality({j \in others : j > i}) < k THEN a ELSE b,
                            life.stress, life.sleep, life.activity)]
          /\ current_entry = entries[c]
          /\ clock = h

\* The tenth entry is all Great with stress 1, 8.5 hours of sleep and a
\* morning run; the four days before are Good or Great, the day before those
\* is not, the older days share one mood; every hour.
EndToEnd ==
  \E life \in Lifestyles, x \in {None, "Sad", "Neutral"}, b \in MoodOrNone,
     g \in [1..4 -> {"Good", "Great"}], h \in Hours :
    /\ entries =
         [i \in 1..10 |->
            IF i = 10
            THEN Day(i, "Great", 1, 17, <<"m","o","r","n","i","n","g"," ","r","u","n">>)
            ELSE Day(i, IF i >= 6 THEN g[i - 5] ELSE IF i = 5 THEN x ELSE b,
                     life.stress, life.sleep, life.activity)]
    /\ current_entry = entries[10]
    /\ clock = h

InitNotify ==
  /\ logged_in = FALSE
  /\ username = <<>>
  /\ show_notification = FALSE
  /\ notification_message = <<>>
  /\ save_status = None
  /\ disk = [h \in UserHashes |-> NoFile]
  /\ failures = 0
  /\ (CurrentVaried \/ HistoryVaried \/ EndToEnd)
  /\ average_mood = current_entry.average_mood
  /\ analysis = EmptyAnalysis
  /\ message_parts = <<>>
  /\ call = NoCall

\* a call of get_contextual_notification(average_mood, stress, current_entry, entries)
Notify ==
  /\ call.op = "none"
  /\ LET res == get_contextual_notification(average_mood, current_entry.stress,
                                            current_entry, entries, clock)
     IN  /\ notification_message' = res.final_message
         /\ message_parts' = res.message_parts
         /\ call' = [NoCall EXCEPT !.op = "get_contextual_notification",
                                   !.stress_level = current_entry.stress,
                                   !.current_hour = clock,
                                   !.raised = res.raised]
  /\ analysis' = IF average_mood \in MoodKeys
                  THEN analyze_mood_patterns(entries, current_entry)
                  ELSE analysis
  /\ entries' = IF average_mood \in MoodKeys THEN entries_after_call(entries) ELSE entries
  /\ UNCHANGED <<logged_in, username, show_notification, save_status, disk,
                 current_entry, average_mood, failures, clock>>

NextNotify == Notify

SpecNotify == InitNotify /\ [][NextNotify]_vars

\* ------------------------------------------------------------------------
\* Specification of several users: sessions of different usernames follow
\* one another on one disk.  Each save writes the session's username into
\* the activity field, so that every entry tells under which name it was
\* saved.
\* ------------------------------------------------------------------------
UserInputs ==
  {<<" ", "a", "b", " ">>, <<"a", "m", "y">>, <<" ", "A", "m", "y", " ">>,
   <<"b", "o", "b">>}

SignedSave ==
  \E d \in 1..MaxDate :
    Save(d, <<"Good", "", "", "", "", "">>, 16, 1, username, "ok", "ok")

NextUsers ==
  \/ \E raw \in UserInputs : Login(raw)
  \/ \E raw \in UserInputs : CreateAccount(raw)
  \/ Logout
  \/ SignedSave
  \/ \E i \in 1..MaxDate : Delete(i, "ok")

SpecUsers == Init /\ [][NextUsers]_vars

\* ------------------------------------------------------------------------
\* Specification of failing writes: one user saves and deletes while up to
\* MaxFail calls of save_user_data fail, in each of the ways a call can fail.
\* ------------------------------------------------------------------------
FailForms == {NoSlots, <<"Good", "", "", "", "", "">>}

SaveFailing ==
  \E d \in 1..MaxDate, m \in FailForms, w1 \in WriteOutcomes, w2 \in WriteOutcomes :
    Save(d, m, 16, 1, <<>>, w1, w2)

NextFail ==
  \/ Login(<<"a", "m", "y">>)
  \/ Logout
  \/ SaveFailing
  \/ \E i \in 1..MaxDate, w \in WriteOutcomes : Delete(i, w)

SpecFail == Init /\ [][NextFail]_vars

\* ------------------------------------------------------------------------
\* Specification of the history view: a logged-in user whose entries were
\* stored in any order of their dates deletes them one by one; the write
\* after a delete may fail.
\* ------------------------------------------------------------------------
DeleteHistory(h) ==
  \E n \in 0..(MaxPerm + 1) : \E p \in Perms(n) :
    h = [i \in 1..n |-> Day(p[i], "Good", 3, 16, <<>>)]

InitDelete ==
  /\ logged_in = TRUE
  /\ username = <<"a", "m", "y">>
  /\ DeleteHistory(entries)
  /\ show_notification = FALSE
  /\ notification_message = <<>>
  /\ save_status = None
  /\ disk = [h \in UserHashes |->
               IF h = hash_username(username) /\ entries # <<>>
               THEN DataFile(entries) ELSE NoFile]
  /\ failures = 0
  /\ clock \in FormHours
  /\ InitCalls

NextDelete == \E i \in 1..(MaxPerm + 1), w \in WriteOutcomes : Delete(i, w)

SpecDelete == InitDelete /\ [][NextDelete]_vars

\* ------------------------------------------------------------------------
\* Specification of direct calls: both functions are called on histories
\* whose entries lack the optional keys, supplied in any order of the dates,
\* with a mood argument that may be None or no key of MOOD_OPTIONS.
\* ------------------------------------------------------------------------
AbsentSlots == [i \in DOMAIN TIME_SLOTS |-> Absent]

\* the average_mood argument: None, a string that is no key, or a key
ArgumentMoods == {None, "Happy", "Sad", "Great"}

\* the average_mood of a stored entry: no such key, a string that is no key
\* of MOOD_OPTIONS, or a key
StoredLabels == {Absent, "Happy", "Good"}

\* entries with only a date and a label, or with every field
SparseHistory ==
  \E n \in 0..MaxPerm : \E p \in Perms(n), l \in [1..n -> StoredLabels],
     bare \in BOOLEAN, first \in BOOLEAN :
    /\ entries =
         [i \in 1..n |->
            IF bare THEN Entry(p[i], AbsentSlots, 0, 0, <<>>, l[i])
            ELSE Entry(p[i], [k \in DOMAIN TIME_SLOTS |-> "Good"], 10, 5,
                       <<"w","a","l","k">>, l[i])]
    /\ current_entry = IF n = 0 THEN NoEntry ELSE IF first THEN entries[1] ELSE entries[n]

InitDirect ==
  /\ logged_in = FALSE
  /\ username = <<>>
  /\ show_notification = FALSE
  /\ notification_message = <<>>
  /\ save_status = None
  /\ disk = [h \in UserHashes |-> NoFile]
  /\ failures = 0
  /\ clock \in FormHours
  /\ SparseHistory
  /\ average_mood \in ArgumentMoods
  /\ analysis = EmptyAnalysis
  /\ message_parts = <<>>
  /\ call = NoCall

NextDirect == Analyze \/ Notify

SpecDirect == InitDirect /\ [][NextDirect]_vars

\* ------------------------------------------------------------------------
\* Properties
\* ------------------------------------------------------------------------
\* the slots of an entry that hold a mood
FilledSlots(e) == {k \in SlotKeys : e[k] \in MoodKeys}

\* the sum of the ordinals of the filled slots, counted mood by mood
OrdinalTotal(e) ==
  Cardinality({k \in SlotKeys : e[k] = "Sad"})
  + 2 * Cardinality({k \in SlotKeys : e[k] = "Neutral"})
  + 3 * Cardinality({k \in SlotKeys : e[k] = "Good"})
  + 4 * Cardinality({k \in SlotKeys : e[k] = "Great"})

Scored == call.op = "calculate_average_mood"
Saved == call.op = "save"
Analyzed == call.op = "analyze_mood_patterns"
Notified == call.op = "get_contextual_notification"

\* C1: with at least one filled slot, calculate_average_mood returns the
\* bucket of the mean of the filled ordinals, each bucket closed above:
\* mean <= 1.5 Sad, <= 2.5 Neutral, <= 3.5 Good, else Great.  Unfilled slots
\* do not count.  (mean <= x/2 is 2 * total <= x * filled.)
C1_MeanBucket ==
  (Scored /\ FilledSlots(current_entry) # {}) =>
    LET n == Cardinality(FilledSlots(current_entry))
        t == OrdinalTotal(current_entry)
    IN  /\ average_mood \in MoodKeys
        /\ (average_mood = "Sad") <=> (2 * t <= 3 * n)
        /\ (average_mood = "Neutral") <=> (2 * t > 3 * n /\ 2 * t <= 5 * n)
        /\ (average_mood = "Good") <=> (2 * t > 5 * n /\ 2 * t <= 7 * n)
        /\ (average_mood = "Great") <=> (2 * t > 7 * n)
        /\ (t = 4 * n) => average_mood = "Great"

\* a mean of exactly 2.5 over four filled slots, two slots unfilled, is Neutral
C1_Witness ==
  /\ Scored
  /\ Cardinality(FilledSlots(current_entry)) = 4
  /\ OrdinalTotal(current_entry) = 10
  /\ \E k \in SlotKeys : current_entry[k] = Absent
  /\ \E k \in SlotKeys : current_entry[k] = ""
  /\ average_mood = "Neutral"

\* C2: when no slot is filled (absent or empty), calculate_average_mood
\* returns None, and save stores the entry with average_mood None.
C2_NoneWhenUnfilled ==
  FilledSlots(current_entry) = {} =>
    /\ Scored => average_mood = None
    /\ Saved =>
         /\ current_entry.average_mood = None
         /\ \E i \in DOMAIN entries :
              /\ entries[i] = current_entry
              /\ entries[i].average_mood = None
         /\ \A i \in DOMAIN entries :
              entries[i].date = call.date => entries[i].average_mood = None
         /\ disk[hash_username(username)].entries = entries

\* an empty form replaced the entry of the date, which had an average
C2_Witness ==
  /\ Saved
  /\ call.index = 1
  /\ FilledSlots(current_entry) = {}
  /\ Len(entries) = 1
  /\ entries[1].average_mood = None
  /\ entries[1].date = EarlierEntry.date

UniqueDates(es) == \A i, j \in DOMAIN es : es[i].date = es[j].date => i = j

\* a step of the save handler for a date
SaveStep == call'.op = "save"

\* C3: the entries hold at most one entry per date after any saves and
\* deletes; saving a date that exists replaces its entry at its position and
\* changes nothing else; saving a new date appends exactly one entry.
C3_OnePerDate ==
  /\ [](UniqueDates(entries)
        /\ \A h \in DOMAIN disk : UniqueDates(disk[h].entries))
  /\ [][SaveStep =>
          IF \E i \in DOMAIN entries : entries[i].date = call'.date
          THEN /\ Len(entries') = Len(entries)
               /\ \A i \in DOMAIN entries :
                    IF entries[i].date = call'.date
                    THEN entries'[i] = current_entry' /\ entries'[i].date = call'.date
                    ELSE entries'[i] = entries[i]
          ELSE /\ entries' = Append(entries, current_entry')
               /\ current_entry'.date = call'.date]_vars

\* the first of two entries was replaced and the other kept its place
C3_Witness ==
  /\ Saved
  /\ Len(entries) = 2
  /\ call.index = 1
  /\ entries[1] = current_entry
  /\ entries[1].date = 2
  /\ entries[2].date = 1

\* C4: every entry written by save has average_mood equal to
\* calculate_average_mood of its own slots (None when no slot is filled), in
\* the session and in the user's file.
C4_AverageFromSlots ==
  /\ \A i \in DOMAIN entries :
       /\ entries[i].average_mood = calculate_average_mood(entries[i])
       /\ FilledSlots(entries[i]) = {} => entries[i].average_mood = None
  /\ \A h \in DOMAIN disk : \A i \in DOMAIN disk[h].entries :
       disk[h].entries[i].average_mood = calculate_average_mood(disk[h].entries[i])

\* an update stored an entry whose average differs from its first slot
C4_Witness ==
  /\ Saved
  /\ call.index > 0
  /\ current_entry.mood_6_9 = "Good"
  /\ current_entry.average_mood = "Great"
  /\ \E i \in DOMAIN entries : entries[i] = current_entry

\* C5: analyze_mood_patterns on a history of 0 or 1 entries returns the empty
\* result, whatever the entry holds.
C5_EmptyBelowTwo ==
  (Analyzed /\ Len(entries) < 2) =>
    /\ analysis.keys = {}
    /\ analysis = EmptyAnalysis

C5_Witness ==
  /\ Analyzed
  /\ Len(entries) = 1
  /\ entries[1].average_mood = "Great"
  /\ analysis.keys = {}

\* the entries of the seven most recent dates
Window(es) ==
  {e \in Range(es) : Cardinality({f \in Range(es) : f.date > e.date}) < 7}

IsGood(e) == e.average_mood \in {"Good", "Great"}

\* the entries of the window from which on every day is Good or Great
GoodSuffix(es) ==
  {e \in Window(es) : \A f \in Window(es) : f.date >= e.date => IsGood(f)}

MoodsOf(es) == [i \in DOMAIN es |-> es[i].average_mood]

\* C6: with at least 2 entries, good_mood_streak is the length of the longest
\* suffix, by date, of the last-7 window whose entries are all Good or
\* Great; it depends on the dates, not on the order the entries come in.
C6_StreakIsGoodSuffix ==
  (Analyzed /\ Len(entries) >= 2) =>
    /\ analysis.streak_info.good_mood_streak = Cardinality(GoodSuffix(entries))
    /\ analysis.streak_info.total_recent_entries = Cardinality(Window(entries))

\* the example of the claim: Good, Great, Sad, Great, Great, Great gives 3
C6_Witness ==
  /\ Analyzed
  /\ MoodsOf(entries) = <<"Good", "Great", "Sad", "Great", "Great", "Great">>
  /\ \A i \in DOMAIN entries : entries[i].date = i
  /\ analysis.streak_info.good_mood_streak = 3

\* the entry with r - 1 entries of a later date
Newest(es, r) ==
  CHOOSE e \in Range(es) : Cardinality({f \in Range(es) : f.date > e.date}) = r - 1

Direction(new, old, up, down) ==
  IF new > old THEN up ELSE IF new < old THEN down ELSE "stable"

\* C7: with at least 3 entries, mood_trend compares the ordinals of the newest
\* and the third-newest entry by date, and stress_trend their stress levels,
\* both strictly; with exactly 2 entries trend_info is empty.
C7_TrendNewestVsThird ==
  Analyzed =>
    /\ Len(entries) >= 3 =>
         LET new == Newest(entries, 1)
             old == Newest(entries, 3)
         IN  /\ analysis.trend_info.mood_trend =
                  Direction(MoodValue(new.average_mood), MoodValue(old.average_mood),
                            "improving", "declining")
             /\ analysis.trend_info.stress_trend =
                  Direction(Stress(new), Stress(old), "increasing", "decreasing")
             /\ {"mood_trend", "stress_trend"} \subseteq analysis.trend_info.keys
    /\ Len(entries) = 2 =>
         "trend_info" \in analysis.keys /\ analysis.trend_info.keys = {}

\* moods 4, 2, 3 by date: declining, though the newest is above the one before
C7_Witness ==
  /\ Analyzed
  /\ Len(entries) = 3
  /\ MoodsOf(SortByDate(entries)) = <<"Great", "Neutral", "Good">>
  /\ entries[1].date = 3
  /\ analysis.trend_info.mood_trend = "declining"

\* C8 as claimed: the result has the key comparison exactly when the history
\* has at least 14 entries.
C8_KeyOnlyFrom14 ==
  Analyzed => ("comparison" \in analysis.keys <=> Len(entries) >= 14)

\* C8: for 2 to 13 entries the result has the key comparison with an empty
\* map as its value; the map is filled (last_week_avg, this_week_avg,
\* improvement) exactly when the history has at least 14 entries.
C8_ComparisonEmptyBelow14 ==
  Analyzed =>
    /\ "comparison" \in analysis.keys <=> Len(entries) >= 2
    /\ analysis.comparison.keys # {} <=> Len(entries) >= 14
    /\ Len(entries) >= 14 =>
         analysis.comparison.keys = {"last_week_avg", "this_week_avg", "improvement"}
    /\ ~GetImprovement(analysis) \/ Len(entries) >= 14

\* 13 entries whose newest 7 are better than the 6 before
C8_Witness ==
  /\ Analyzed
  /\ Len(entries) = 13
  /\ "comparison" \in analysis.keys
  /\ analysis.comparison.keys = {}
  /\ \E e \in Range(entries) : e.date = 13 /\ e.average_mood = "Great"
  /\ \E e \in Range(entries) : e.date = 1 /\ e.average_mood = "Sad"

\* the entries whose rank by date, newest first, is in lo..hi
Ranked(es, lo, hi) ==
  {e \in Range(es) : Cardinality({f \in Range(es) : f.date > e.date}) + 1 \in lo..hi}

\* the sum of the mood ordinals of a set of entries, None counting 0
OrdinalSum(S) ==
  Cardinality({e \in S : e.average_mood = "Sad"})
  + 2 * Cardinality({e \in S : e.average_mood = "Neutral"})
  + 3 * Cardinality({e \in S : e.average_mood = "Good"})
  + 4 * Cardinality({e \in S : e.average_mood = "Great"})

\* C9: with at least 14 entries, last_week_avg is the mean ordinal of the
\* entries ranked 8 to 14 by date and this_week_avg that of the 7 newest (None
\* counting 0), and improvement holds exactly when this_week_avg is strictly
\* greater.
C9_WeekComparison ==
  (Analyzed /\ Len(entries) >= 14) =>
    LET this == OrdinalSum(Ranked(entries, 1, 7))
        last == OrdinalSum(Ranked(entries, 8, 14))
    IN  /\ analysis.comparison.this_week_avg = Avg(this, 7)
        /\ analysis.comparison.last_week_avg = Avg(last, 7)
        /\ analysis.comparison.improvement <=> this > last

\* equal means, each week holding one entry without average: no improvement
C9_Witness ==
  /\ Analyzed
  /\ Len(entries) = 15
  /\ \E e \in Ranked(entries, 1, 7) : e.average_mood = None
  /\ \E e \in Ranked(entries, 8, 14) : e.average_mood = None
  /\ analysis.comparison.this_week_avg = Avg(24, 7)
  /\ analysis.comparison.last_week_avg = Avg(24, 7)
  /\ analysis.comparison.improvement = FALSE

ClosingAt(msg) == {i \in DOMAIN msg : msg[i].id \in ClosingIds}

\* C11: every notification ends with exactly one closing clause: the clause
\* citing the total when the history has 7 entries or more, else the positive
\* closer when the mood ordinal is 3 or more, else the closer for tomorrow.
C11_ClosingRule ==
  Notified =>
    LET n == Len(entries)
        mv == MoodValue(average_mood)
        last == notification_message[Len(notification_message)]
    IN  /\ ClosingAt(notification_message) = {Len(notification_message)}
        /\ n >= 7 => last = Clause("close_tracking", n)
        /\ (n < 7 /\ mv >= 3) => last = Clause("close_positive", 0)
        /\ (n < 7 /\ mv < 3) => last = Clause("close_tomorrow", 0)

\* exactly 7 entries and a Sad day: the closing cites 7
C11_Witness ==
  /\ Notified
  /\ Len(entries) = 7
  /\ average_mood = "Sad"
  /\ notification_message[Len(notification_message)] = Clause("close_tracking", 7)
\* the case of the end-to-end example: the current entry is the newest of 10,
\* all slots Great, stress 1, sleep 8.5 hours, activity "morning run"; the 5
\* newest days are Good or Great and the day before them is not
EndToEndCase ==
  /\ Len(entries) = 10
  /\ UniqueDates(entries)
  /\ current_entry = Newest(entries, 1)
  /\ \A k \in SlotKeys : current_entry[k] = "Great"
  /\ current_entry.stress = 1
  /\ current_entry.sleep = 17
  /\ Lower(current_entry.activity) = <<"m","o","r","n","i","n","g"," ","r","u","n">>
  /\ \A e \in Ranked(entries, 1, 5) : IsGood(e)
  /\ \A e \in Ranked(entries, 6, 6) : ~IsGood(e)

ClauseIds(msg) == {msg[i].id : i \in DOMAIN msg}

C13_NeverRaises ==
  (Analyzed \/ Notified) =>
    /\ call.raised = FALSE
    /\ (Notified /\ MoodValue(average_mood) = 0) =>
         notification_message[Len(notification_message)] \in
           {Clause("close_tomorrow", 0), Clause("close_tracking", Len(entries))}

Sorted(es) == \A i, j \in DOMAIN es : i < j => es[i].date <= es[j].date

SavedUnder(es) == {es[i].activity : i \in DOMAIN es}

\* C15 as claimed: the entries of the session and of every data file were
\* saved under one username, the session's entries under the session's
\* username; distinct usernames never share a collection.
C15_IsolatedByName ==
  /\ logged_in => SavedUnder(entries) \subseteq {username}
  /\ \A h \in UserHashes : Cardinality(SavedUnder(disk[h].entries)) <= 1

\* C15: the entries of the session were saved under a username equal to the
\* session's but for the case of its letters, and every data file holds
\* entries of usernames with one lower-cased form only: usernames that differ
\* in more than case never read or write the same collection, and after
\* logout and login under such a name no entry of the previous user remains.
C15_IsolatedUpToCase ==
  /\ logged_in => \A u \in SavedUnder(entries) : Lower(u) = Lower(username)
  /\ ~logged_in => entries = <<>>
  /\ \A h \in UserHashes : \A u \in SavedUnder(disk[h].entries) : Lower(u) = h

C15_Witness ==
  /\ logged_in
  /\ username = <<"b", "o", "b">>
  /\ call.op = "login"
  /\ SavedUnder(entries) = {<<"b", "o", "b">>}
  /\ SavedUnder(disk[<<"a", "m", "y">>].entries) = {<<"A", "m", "y">>, <<"a", "m", "y">>}
RECURSIVE SleepTotal(_)
SleepTotal(S) ==
  IF S = {} THEN 0
  ELSE LET e == CHOOSE x \in S : TRUE IN e.sleep + SleepTotal(S \ {e})

\* the stress levels of a set of entries summed; an entry without the key
\* counts 3
RECURSIVE StressTotal(_)
StressTotal(S) ==
  IF S = {} THEN 0
  ELSE LET e == CHOOSE x \in S : TRUE
       IN  (IF e.stress = 0 THEN 3 ELSE e.stress) + StressTotal(S \ {e})

\* C16: with at least 2 entries, over the last 7 entries by date:
\* good_sleep is a strength iff the mean of the sleep values there are is
\* >= 7.5 hours and sleep an improvement area iff it is < 6 hours, neither
\* when no entry has a sleep value; stress_management is a strength iff the
\* mean stress is <= 2 and stress an improvement area iff it is >= 4;
\* activity_tracking is a strength iff at least 5 of them have an activity.
\* good_sleep and sleep never come together, nor stress_management and stress.
C16_StrengthsAndAreas ==
  (Analyzed /\ Len(entries) >= 2 /\ UniqueDates(entries)) =>
    LET W == Window(entries)
        S == {e \in W : e.sleep # 0}
        st == Range(analysis.strengths)
        im == Range(analysis.improvement_areas)
    IN  /\ "good_sleep" \in st <=> (S # {} /\ SleepTotal(S) >= 15 * Cardinality(S))
        /\ "sleep" \in im <=> (S # {} /\ SleepTotal(S) < 12 * Cardinality(S))
        /\ "stress_management" \in st <=> StressTotal(W) <= 2 * Cardinality(W)
        /\ "stress" \in im <=> StressTotal(W) >= 4 * Cardinality(W)
        /\ "activity_tracking" \in st
             <=> Cardinality({e \in W : e.activity # <<>>}) >= 5
        /\ st \subseteq {"good_sleep", "stress_management", "activity_tracking"}
        /\ im \subseteq {"sleep", "stress"}
        /\ ~("good_sleep" \in st /\ "sleep" \in im)
        /\ ~("stress_management" \in st /\ "stress" \in im)

\* nine entries; the mean sleep of the last 7 is exactly 7.5 hours, the two
\* older days had 5 hours
C16_Witness ==
  /\ Analyzed
  /\ Len(entries) = 9
  /\ {e.sleep : e \in Window(entries)} = {15}
  /\ {e.sleep : e \in Range(entries) \ Window(entries)} = {10}
  /\ analysis.strengths = <<"good_sleep">>
  /\ analysis.improvement_areas = <<>>
\* the hours of the four parts of the day and the clauses of each
DaypartHours ==
  [night |-> {22, 23} \cup 0..5, morning |-> 6..11, afternoon |-> 12..16,
   evening |-> 17..21]

DaypartIds ==
  [night |-> {"night_positive", "night_neutral", "night_low"},
   morning |-> {"morning_positive", "morning_low"},
   afternoon |-> {"afternoon_positive", "afternoon_low"},
   evening |-> {"evening_positive", "evening_low"}]

Dayparts == DOMAIN DaypartHours

TimeIds == UNION {DaypartIds[p] : p \in Dayparts}

\* C17: at every hour and for every mood exactly one time-of-day clause is
\* accumulated, that of the part of the day the hour lies in: night for 22-23
\* and 0-5, morning for 6-11, afternoon for 12-16, evening for 17-21; the
\* four parts are disjoint and cover the 24 hours.
C17_OneTimeClause ==
  /\ UNION {DaypartHours[p] : p \in Dayparts} = Hours
  /\ \A p, q \in Dayparts : p # q => DaypartHours[p] \cap DaypartHours[q] = {}
  /\ Notified =>
       /\ Cardinality({i \in DOMAIN message_parts : message_parts[i].id \in TimeIds}) = 1
       /\ \A p \in Dayparts :
            clock \in DaypartHours[p]
              => ClauseIds(message_parts) \cap TimeIds \subseteq DaypartIds[p]

C17_Witness ==
  /\ Notified
  /\ clock = 22
  /\ average_mood = "Neutral"
  /\ ClauseIds(message_parts) \cap TimeIds = {"night_neutral"}
ActivityIds == {"activity_exercise", "activity_mindful", "activity_social"}

\* the lower-cased text holds a word of the set
Mentions(text, words) == \E w \in words : Contains(Lower(text), w)

\* C18: at most one activity clause is accumulated; it is that of the first
\* category, in the order exercise, mindfulness, social, of which the
\* activity text holds a keyword; an empty text or one with no keyword gives
\* none.
C18_FirstCategoryWins ==
  Notified =>
    LET a == current_entry.activity
        got == {i \in DOMAIN message_parts : message_parts[i].id \in ActivityIds}
    IN  /\ Cardinality(got) <= 1
        /\ ClauseIds(message_parts) \cap ActivityIds =
             IF Mentions(a, ExerciseWords) THEN {"activity_exercise"}
             ELSE IF Mentions(a, MindfulWords) THEN {"activity_mindful"}
             ELSE IF Mentions(a, SocialWords) THEN {"activity_social"}
             ELSE {}

\* "relax with family" holds a mindfulness and a social keyword
C18_Witness ==
  /\ Notified
  /\ Mentions(current_entry.activity, MindfulWords)
  /\ Mentions(current_entry.activity, SocialWords)
  /\ ClauseIds(message_parts) \cap ActivityIds = {"activity_mindful"}
SuggestionIds == {"suggest_sleep", "suggest_stress"}

\* C19 as claimed: the two suggestions never come together and both need a
\* mood of at most 2: the sleep suggestion needs sleep among the improvement
\* areas, the stress suggestion needs stress among them and no sleep
\* suggestion; with mood Good or Great no suggestion is accumulated.
C19_SuggestionsNeedLowMood ==
  Notified =>
    LET ids == ClauseIds(message_parts) \cap SuggestionIds
        mv == MoodValue(average_mood)
        im == Range(analysis.improvement_areas)
    IN  /\ Cardinality(ids) <= 1
        /\ "suggest_sleep" \in ids => (mv <= 2 /\ "sleep" \in im)
        /\ "suggest_stress" \in ids => (mv <= 2 /\ "stress" \in im)
        /\ mv >= 3 => ids = {}
\* a username the login page accepts
ValidName(name) == name # <<>> /\ Strip(name) = name /\ Len(name) >= 3

\* an attempt to log in or to create an account with an empty or short name
ShortAttempt ==
  \E raw \in LoginInputs :
    /\ Len(Strip(raw)) < 3
    /\ (Login(raw) \/ CreateAccount(raw))

\* C20: while logged in the username is non-empty, stripped and at least 3
\* characters long; an attempt to log in or to create an account with an
\* empty or shorter name leaves logged_in false and the username as it was;
\* logout leaves the session logged out, with no entries, no username and no
\* notification.
C20_SessionInvariant ==
  /\ [](logged_in => ValidName(username))
  /\ [][ShortAttempt => (~logged_in' /\ username' = username)]_vars
  /\ [][Logout => (/\ ~logged_in'
                    /\ username' = <<>>
                    /\ entries' = <<>>
                    /\ ~show_notification'
                    /\ notification_message' = <<>>)]_vars

\* a failed login after an earlier session has saved and logged out
C20_Witness ==
  /\ call.op = "login"
  /\ ~logged_in
  /\ username = <<>>
  /\ entries = <<>>
  /\ \E h \in UserHashes : disk[h].entries # <<>>
WarningStatus == {"updated_warning", "added_warning"}

\* the entries the user's data file gives back
Stored == load_user_data(disk, username)

\* C21 as claimed: after a save during which a write of the user's files
\* failed, the entries of the session hold the entry all the same, and the
\* save status is a warning.
C21_FailedWriteWarns ==
  Saved =>
    /\ \E i \in DOMAIN entries : entries[i] = current_entry
    /\ (~call.saved \/ (average_mood # None /\ ~call.resaved))
         => save_status \in WarningStatus
DeleteStep == call'.op = "delete"

Dates(es) == [i \in DOMAIN es |-> es[i].date]

\* C22: with unique dates, a delete removes the entry of the selected date,
\* the i-th most recent one, and nothing else: the other entries keep their
\* fields and their order and there is one entry less; the entries that are
\* left are what save_user_data is given, so a successful write stores them.
C22_DeleteExactlyOne ==
  [][(DeleteStep /\ UniqueDates(entries)) =>
       /\ call'.date = Newest(entries, call'.index).date
       /\ \E i \in DOMAIN entries : entries[i].date = call'.date
       /\ Len(entries') = Len(entries) - 1
       /\ entries' = SelectSeq(entries, LAMBDA e : e.date # call'.date)
       /\ call'.saved => disk'[hash_username(username)] = DataFile(entries')
       /\ disk'[hash_username(username)] \in
            {disk[hash_username(username)], CorruptFile, DataFile(entries')}]_vars

\* the second most recent of three entries was deleted; it was not the last
\* of the list
C22_Witness ==
  /\ call.op = "delete"
  /\ call.index = 2
  /\ call.date = 2
  /\ call.saved
  /\ Dates(entries) = <<3, 1>>
  /\ Dates(disk[hash_username(username)].entries) = <<3, 1>>
\* the entry submitted is the most recent of the history by date
CurrentIsNewest == entries # <<>> /\ current_entry = Newest(entries, 1)

\* C23: the streak counts back from the most recent date, not from the entry
\* submitted.  When the entry submitted is the most recent one and its mood
\* is Neutral or Sad, good_mood_streak is 0 and the Neutral opening "after
\* some good days" is not chosen; that opening, and a Great opening citing a
\* streak that does not count the entry submitted, come only with an entry
\* dated before newer ones.
C23_StreakAnchoredAtNewest ==
  (Notified /\ UniqueDates(entries)) =>
    LET mv == MoodValue(average_mood)
        first == notification_message[1]
    IN  /\ Len(entries) >= 2
             => analysis.streak_info.good_mood_streak = Cardinality(GoodSuffix(entries))
        /\ (CurrentIsNewest /\ mv <= 2)
             => /\ analysis.streak_info.good_mood_streak = 0
                /\ first.id # "neutral_after_good"
        /\ first.id = "neutral_after_good" => ~CurrentIsNewest
        /\ (first.id = "great_streak" /\ current_entry \notin GoodSuffix(entries))
             => ~CurrentIsNewest

\* a Neutral entry dated before two Great days opens with "after some good
\* days"
C23_Witness ==
  /\ Notified
  /\ Len(entries) = 3
  /\ average_mood = "Neutral"
  /\ current_entry = Newest(entries, 3)
  /\ analysis.streak_info.good_mood_streak = 2
  /\ notification_message[1] = Clause("neutral_after_good", 0)
====
